---- MODULE Spec2Model ----
(***************************************************************************)
(* A model of the bib-enhancer Rust core (src/src/lib.rs): the blocking    *)
(* index builder, the candidate filter, the multi-factor scorer, the top-N *)
(* selection and the two parallel batch entry points.                      *)
(*                                                                         *)
(* Representation.                                                         *)
(*   String        a sequence of one-character strings                     *)
(*   Option<T>     <<>> for None, <<x>> for Some(x)                        *)
(*   Vec<T>        a sequence; Rust's 0-based v[i] is v[i + 1] here        *)
(*   HashMap<K,V>  a function whose DOMAIN is the key set                  *)
(*   f64 score     an integer number of hundredths of a point (Pt)         *)
(***************************************************************************)
EXTENDS Integers, Sequences, FiniteSets, TLC

\* ------------------------------------------------------------------------
\* Characters and strings
\* ------------------------------------------------------------------------

\* The characters the model's strings are written in, in code point order.
Alphabet ==
    << " ", ".", "/", "0", "1", "2", "3", "4", "5", "6", "7", "8", "9",
       "A", "B", "C", "D", "E", "F", "G", "H", "I", "J", "K", "L", "M",
       "N", "O", "P", "Q", "R", "S", "T", "U", "V", "W", "X", "Y", "Z",
       "a", "b", "c", "d", "e", "f", "g", "h", "i", "j", "k", "l", "m",
       "n", "o", "p", "q", "r", "s", "t", "u", "v", "w", "x", "y", "z",
       "É", "é" >>

Uppers ==
    << "A", "B", "C", "D", "E", "F", "G", "H", "I", "J", "K", "L", "M",
       "N", "O", "P", "Q", "R", "S", "T", "U", "V", "W", "X", "Y", "Z" >>

Lowers ==
    << "a", "b", "c", "d", "e", "f", "g", "h", "i", "j", "k", "l", "m",
       "n", "o", "p", "q", "r", "s", "t", "u", "v", "w", "x", "y", "z" >>

\* The code point order of a character (its place in Alphabet).
Code(c) == CHOOSE i \in 1..Len(Alphabet) : Alphabet[i] = c

IsUpper(c) == \E i \in 1..Len(Uppers) : Uppers[i] = c

IsWhitespace(c) == c = " "

\* char::is_alphabetic
IsAlphabetic(c) ==
    \/ \E i \in 1..Len(Uppers) : Uppers[i] = c
    \/ \E i \in 1..Len(Lowers) : Lowers[i] = c
    \/ c \in { "É", "é" }

\* char lowercasing, as str::to_lowercase applies it to each character
LowerChar(c) ==
    IF IsUpper(c) THEN Lowers[CHOOSE i \in 1..Len(Uppers) : Uppers[i] = c]
    ELSE IF c = "É" THEN "é" ELSE c

\* char::to_ascii_uppercase
UpperChar(c) ==
    IF \E i \in 1..Len(Lowers) : Lowers[i] = c
    THEN Uppers[CHOOSE i \in 1..Len(Lowers) : Lowers[i] = c]
    ELSE c

\* str::to_lowercase
to_lowercase(s) == [i \in 1..Len(s) |-> LowerChar(s[i])]

\* str::trim
RECURSIVE trim_start(_)
trim_start(s) ==
    IF s # <<>> /\ IsWhitespace(Head(s)) THEN trim_start(Tail(s)) ELSE s

RECURSIVE trim_end(_)
trim_end(s) ==
    IF s # <<>> /\ IsWhitespace(s[Len(s)])
    THEN trim_end(SubSeq(s, 1, Len(s) - 1))
    ELSE s

trim(s) == trim_end(trim_start(s))

\* str::trim_end_matches('.')
RECURSIVE trim_end_dots(_)
trim_end_dots(s) ==
    IF s # <<>> /\ s[Len(s)] = "."
    THEN trim_end_dots(SubSeq(s, 1, Len(s) - 1))
    ELSE s

\* str::starts_with
starts_with(s, prefix) ==
    /\ Len(prefix) <= Len(s)
    /\ SubSeq(s, 1, Len(prefix)) = prefix

\* str::contains: the pattern occurs as a contiguous substring
contains(s, pat) ==
    \E i \in 0..(Len(s) - Len(pat)) : SubSeq(s, i + 1, i + Len(pat)) = pat

\* str::split_whitespace: the maximal runs of non-whitespace, in order
RECURSIVE SplitFrom(_, _, _)
SplitFrom(s, cur, acc) ==
    IF s = <<>>
    THEN IF cur = <<>> THEN acc ELSE Append(acc, cur)
    ELSE IF IsWhitespace(Head(s))
         THEN SplitFrom(Tail(s), <<>>, IF cur = <<>> THEN acc ELSE Append(acc, cur))
         ELSE SplitFrom(Tail(s), Append(cur, Head(s)), acc)

split_whitespace(s) == SplitFrom(s, <<>>, <<>>)

\* [&str]::join(" ")
RECURSIVE join(_)
join(tokens) ==
    IF tokens = <<>> THEN <<>>
    ELSE IF Len(tokens) = 1 THEN tokens[1]
    ELSE tokens[1] \o <<" ">> \o join(Tail(tokens))

\* The str ordering: lexicographic by code point; a proper prefix is smaller.
RECURSIVE StrLess(_, _)
StrLess(a, b) ==
    IF b = <<>> THEN FALSE
    ELSE IF a = <<>> THEN TRUE
    ELSE IF Head(a) = Head(b) THEN StrLess(Tail(a), Tail(b))
    ELSE Code(Head(a)) < Code(Head(b))

\* Normalize text: lowercase and collapse whitespace
normalize(s) == join(split_whitespace(to_lowercase(s)))

\* Tokenize and sort tokens alphabetically
RECURSIVE InsertSorted(_, _)
InsertSorted(tok, sorted) ==
    IF sorted = <<>> THEN <<tok>>
    ELSE IF StrLess(tok, Head(sorted)) THEN <<tok>> \o sorted
    ELSE <<Head(sorted)>> \o InsertSorted(tok, Tail(sorted))

RECURSIVE SortTokens(_)
SortTokens(tokens) ==
    IF tokens = <<>> THEN <<>>
    ELSE InsertSorted(Head(tokens), SortTokens(Tail(tokens)))

tokenize_and_sort(s) == SortTokens(split_whitespace(s))

\* Extract trigrams from text: the set of 3-character windows of the
\* lowercased text, empty when it has fewer than 3 characters.
extract_trigrams(text) ==
    LET chars == to_lowercase(text)
    IN  IF Len(chars) < 3 THEN {}
        ELSE { SubSeq(chars, i + 1, i + 3) : i \in 0..(Len(chars) - 3) }

\* ------------------------------------------------------------------------
\* String similarity
\* ------------------------------------------------------------------------

\* Model units per score point: an f64 score x is the integer x * Unit.
Unit == 100

Pt(points) == points * Unit

Min(a, b) == IF a <= b THEN a ELSE b

Max(a, b) == IF a >= b THEN a ELSE b

\* The matching pass of strsim's Jaro similarity: for each character of a,
\* in order, the first unflagged equal character of b inside the search
\* window is flagged.  Yields the flagged (0-based) positions of a and b.
RECURSIVE JaroFlags(_, _, _, _, _, _)
JaroFlags(a, b, range, i, aflags, bflags) ==
    IF i >= Len(a) THEN [a |-> aflags, b |-> bflags]
    ELSE LET min_bound == IF i > range THEN i - range ELSE 0
             max_bound == Min(Len(b), i + range + 1)
             hits == { j \in min_bound..(max_bound - 1) :
                          a[i + 1] = b[j + 1] /\ j \notin bflags }
         IN  IF hits = {}
             THEN JaroFlags(a, b, range, i + 1, aflags, bflags)
             ELSE LET j == CHOOSE h \in hits : \A g \in hits : h <= g
                  IN  JaroFlags(a, b, range, i + 1,
                                aflags \cup {i}, bflags \cup {j})

\* The characters of s at the flagged positions, in order.
RECURSIVE Flagged(_, _, _)
Flagged(s, flags, i) ==
    IF i >= Len(s) THEN <<>>
    ELSE (IF i \in flags THEN <<s[i + 1]>> ELSE <<>>) \o Flagged(s, flags, i + 1)

\* The Jaro similarity of strings of lengths la and lb with m matches and t
\* transpositions, (m/la + m/lb + (m - t)/m) / 3, scaled to 0 .. Pt(100) and
\* rounded down.
JaroValue(la, lb, m, t) ==
    IF m = 0 THEN 0
    ELSE (Pt(100) * (m * lb * m + m * la * m + (m - t) * la * lb))
         \div (3 * la * lb * m)

\* Half the number of places at which the matched characters differ.
Transpositions(ma, mb) ==
    Cardinality({ k \in 1..Len(ma) : ma[k] # mb[k] }) \div 2

\* The Jaro similarity from the flags of the matching pass.
JaroOfFlags(a, b, fl) ==
    JaroValue(Len(a), Len(b), Cardinality(fl.a),
              Transpositions(Flagged(a, fl.a, 0), Flagged(b, fl.b, 0)))

\* usize::saturating_sub
saturating_sub(a, b) == IF a > b THEN a - b ELSE 0

\* strsim::jaro, scaled to 0 .. Pt(100).
jaro(a, b) ==
    IF Len(a) = 0 /\ Len(b) = 0 THEN Pt(100)
    ELSE IF Len(a) = 0 \/ Len(b) = 0 THEN 0
    ELSE JaroOfFlags(a, b,
             JaroFlags(a, b, saturating_sub(Max(Len(a), Len(b)) \div 2, 1),
                       0, {}, {}))

\* The length of the common prefix of a and b, counted up to limit.
RECURSIVE CommonPrefix(_, _, _)
CommonPrefix(a, b, limit) ==
    IF limit = 0 \/ a = <<>> \/ b = <<>> \/ Head(a) # Head(b) THEN 0
    ELSE 1 + CommonPrefix(Tail(a), Tail(b), limit - 1)

\* strsim::jaro_winkler, scaled to 0 .. Pt(100): a similarity above 0.7 is
\* raised by a tenth of the remaining distance per common prefix character
\* (at most 4).
Winkler(a, b, sim) ==
    IF sim > Pt(70)
    THEN sim + (CommonPrefix(a, b, 4) * (Pt(100) - sim)) \div 10
    ELSE sim

jaro_winkler(a, b) == Winkler(a, b, jaro(a, b))

\* Token sort ratio on already-normalized strings
token_sort_ratio_f64_prenormalized(norm1, norm2) ==
    IF norm1 = <<>> \/ norm2 = <<>> THEN 0
    ELSE jaro_winkler(join(tokenize_and_sort(norm1)),
                      join(tokenize_and_sort(norm2)))

\* Internal token sort ratio (0 .. Pt(100))
token_sort_ratio_f64(s1, s2) ==
    IF s1 = <<>> \/ s2 = <<>> THEN 0
    ELSE token_sort_ratio_f64_prenormalized(normalize(s1), normalize(s2))

\* ------------------------------------------------------------------------
\* Scorer
\* ------------------------------------------------------------------------

\* Academic review/response prefixes - used as a gate in fuzzy matching.
ACADEMIC_REVIEW_PREFIXES ==
    << << "r", "e", "p", "l", "y", " ", "t", "o" >>,
       << "c", "o", "m", "m", "e", "n", "t", "s", " ", "o", "n" >>,
       << "p", "r", "é", "c", "i", "s", " ", "o", "f" >>,
       << "p", "r", "e", "c", "i", "s", " ", "o", "f" >>,
       << "r", "e", "v", "i", "e", "w", " ", "o", "f" >>,
       << "c", "r", "i", "t", "i", "c", "a", "l", " ", "n", "o", "t", "i", "c", "e" >>,
       << "s", "y", "m", "p", "o", "s", "i", "u", "m", " ", "o", "n" >>,
       << "d", "i", "s", "c", "u", "s", "s", "i", "o", "n", " ", "o", "f" >>,
       << "r", "e", "s", "p", "o", "n", "s", "e", " ", "t", "o" >>,
       << "a", " ", "r", "e", "p", "l", "y", " ", "t", "o" >>,
       << "r", "e", "s", "p", "o", "n", "s", "e", "s", " ", "t", "o" >> >>

\* Check if a title starts with an academic review/response prefix
has_academic_prefix(title) ==
    LET trimmed == trim(to_lowercase(title))
    IN  \E k \in 1..Len(ACADEMIC_REVIEW_PREFIXES) :
            starts_with(trimmed, ACADEMIC_REVIEW_PREFIXES[k])

StrErrata == << "e", "r", "r", "a", "t", "a" >>

StrReview == << "r", "e", "v", "i", "e", "w" >>

Bool01(b) == IF b THEN 1 ELSE 0

\* The title score from the raw similarity: +100 for a high similarity or a
\* contained title unless a keyword ("errata", "review") is in one title
\* only, and then -50 per such keyword.
KeywordScore(raw_score, one_contains_other, errata_differs, review_differs) ==
    IF errata_differs \/ review_differs
    THEN raw_score - Pt((Bool01(errata_differs) + Bool01(review_differs)) * 50)
    ELSE IF raw_score > Pt(85) \/ one_contains_other
         THEN raw_score + Pt(100)
         ELSE raw_score

TitleScore(norm_subject, norm2, raw_score, weight) ==
    Max(KeywordScore(raw_score,
            contains(norm_subject, norm2) \/ contains(norm2, norm_subject),
            contains(norm_subject, StrErrata) # contains(norm2, StrErrata),
            contains(norm_subject, StrReview) # contains(norm2, StrReview)),
        0) * weight

TitleScoreNorm(norm_subject, norm2, weight) ==
    TitleScore(norm_subject, norm2,
               token_sort_ratio_f64_prenormalized(norm_subject, norm2), weight)

\* Score title similarity with bonuses (takes pre-normalized title for subject)
score_title_prenorm(norm_subject, title2, weight) ==
    IF norm_subject = <<>> \/ title2 = <<>> THEN 0
    ELSE TitleScoreNorm(norm_subject, normalize(title2), weight)

\* Score title similarity with bonuses (normalizes both titles)
score_title(title1, title2, weight) ==
    IF title1 = <<>> \/ title2 = <<>> THEN 0
    ELSE score_title_prenorm(normalize(title1), title2, weight)

\* str::len: the length in bytes of the UTF-8 encoding
ByteLen(s) == Len(s) + Cardinality({ i \in 1..Len(s) : s[i] \in { "É", "é" } })

\* Check if a name part is an initial (e.g., "E." or "E")
is_initial(name) ==
    LET cleaned == trim_end_dots(name)
    IN  ByteLen(cleaned) = 1 /\ cleaned # <<>> /\ IsAlphabetic(cleaned[1])

\* Get the uppercase initial letter from a name part (an Option<char>)
get_initial_letter(name) ==
    LET cleaned == trim_end_dots(name)
    IN  IF cleaned = <<>> THEN <<>> ELSE << UpperChar(cleaned[1]) >>

\* Extract given name parts and surname from an author string
extract_name_parts(author) ==
    LET parts == split_whitespace(author)
    IN  IF Len(parts) < 2
        THEN [given |-> <<>>,
              surname |-> IF parts = <<>> THEN <<>> ELSE parts[1]]
        ELSE [given |-> SubSeq(parts, 1, Len(parts) - 1),
              surname |-> parts[Len(parts)]]

\* The number of given names that are initials.
InitialsCount(given) ==
    Cardinality({ i \in 1..Len(given) : is_initial(given[i]) })

\* The number of places, up to the shorter list's length, at which the
\* first letters of the given names agree.
InitialMatches(initial_given, full_given) ==
    Cardinality({ i \in 1..Min(Len(initial_given), Len(full_given)) :
                    get_initial_letter(initial_given[i])
                        = get_initial_letter(full_given[i]) })

\* Require at least one match, and allow at most one mismatch
EnoughMatches(matches, min_names) ==
    matches > 0 /\ matches >= saturating_sub(min_names, 1)

\* The comparison of the given names, the side with more initials being
\* the "initial form".
GivenNamesMatch(given1, given2, initials_count1, initials_count2) ==
    IF initials_count1 = initials_count2 THEN FALSE
    ELSE IF initials_count1 > initials_count2
         THEN EnoughMatches(InitialMatches(given1, given2),
                            Min(Len(given1), Len(given2)))
         ELSE EnoughMatches(InitialMatches(given2, given1),
                            Min(Len(given2), Len(given1)))

NamePartsMatch(p1, p2) ==
    IF get_initial_letter(p1.surname) # get_initial_letter(p2.surname)
    THEN FALSE
    ELSE IF token_sort_ratio_f64(to_lowercase(p1.surname),
                                 to_lowercase(p2.surname)) < Pt(80)
    THEN FALSE
    ELSE GivenNamesMatch(p1.given, p2.given,
                         InitialsCount(p1.given), InitialsCount(p2.given))

\* Check if one author string uses initials that match the other's full names.
check_initials_match(author1, author2) ==
    NamePartsMatch(extract_name_parts(author1), extract_name_parts(author2))

\* The author score from the raw similarity of the two author strings.
AuthorScore(author1, author2, raw_score, weight) ==
    LET bonus == IF raw_score > Pt(85) THEN Pt(100)
                 ELSE IF check_initials_match(author1, author2) THEN Pt(50)
                 ELSE 0
    IN  (raw_score + bonus) * weight

\* Score author similarity with bonuses
score_author(author1, author2, weight) ==
    IF author1 = <<>> \/ author2 = <<>> THEN 0
    ELSE AuthorScore(author1, author2, token_sort_ratio_f64(author1, author2),
                     weight)

\* Rust's integer division: the quotient is truncated toward zero.
RustDiv(a, b) == IF a >= 0 THEN a \div b ELSE -((-a) \div b)

\* i32::abs_diff
abs_diff(a, b) == IF a >= b THEN a - b ELSE b - a

\* Score date similarity (years are Option<i32>)
score_date(year1, year2, weight) ==
    IF year1 = <<>> \/ year2 = <<>> THEN 0
    ELSE LET y1 == year1[1]
             y2 == year2[1]
             diff == abs_diff(y1, y2)
             score == CASE diff = 0 -> Pt(100)
                        [] diff = 1 -> Pt(95)
                        [] diff = 2 -> Pt(90)
                        [] diff = 3 -> Pt(85)
                        [] diff = 4 -> Pt(75)
                        [] diff = 5 -> Pt(65)
                        [] OTHER -> IF RustDiv(y1, 10) = RustDiv(y2, 10)
                                    THEN Pt(40) ELSE 0
         IN  score * weight

\* The journal + volume + number award of the bonus score, given the
\* subject's normalized journal (an Option).
JournalAward(norm_j1, subject, candidate) ==
    IF norm_j1 # <<>> /\ candidate.journal # <<>>
       /\ norm_j1[1] # <<>> /\ norm_j1[1] = normalize(candidate.journal[1])
       /\ subject.volume # <<>> /\ candidate.volume # <<>>
       /\ subject.volume[1] # <<>> /\ subject.volume = candidate.volume
       /\ subject.number # <<>> /\ candidate.number # <<>>
       /\ subject.number[1] # <<>> /\ subject.number = candidate.number
    THEN Pt(50) ELSE 0

\* The DOI award: both present, the subject's non-empty, and equal.
DoiAward(subject, candidate) ==
    IF subject.doi # <<>> /\ candidate.doi # <<>>
       /\ subject.doi[1] # <<>> /\ subject.doi = candidate.doi
    THEN Pt(100) ELSE 0

\* The pages award.
PagesAward(subject, candidate) ==
    IF subject.pages # <<>> /\ candidate.pages # <<>>
       /\ subject.pages[1] # <<>> /\ subject.pages = candidate.pages
    THEN Pt(20) ELSE 0

\* Score bonus fields (DOI, journal+vol+num, pages, publisher)
score_bonus(subject, candidate, weight) ==
    LET norm_j1 == IF subject.journal = <<>> THEN <<>>
                   ELSE << normalize(subject.journal[1]) >>
        publisher ==
            IF subject.publisher # <<>> /\ candidate.publisher # <<>>
               /\ subject.publisher[1] # <<>> /\ candidate.publisher[1] # <<>>
               /\ token_sort_ratio_f64(subject.publisher[1],
                                       candidate.publisher[1]) > Pt(85)
            THEN Pt(10) ELSE 0
    IN  (DoiAward(subject, candidate) + JournalAward(norm_j1, subject, candidate)
         + PagesAward(subject, candidate) + publisher) * weight

\* A precomputation that caches the subject's strings as they are.
PrecomputedSubjectUnnormalized(data) ==
    [ data |-> data,
      has_academic_prefix |-> has_academic_prefix(data.title),
      normalized_title |-> data.title,
      normalized_journal |-> data.journal,
      normalized_publisher |-> data.publisher ]

\* Precomputed data for a subject to avoid recomputation per candidate
PrecomputedSubject(data) ==
    [ data |-> data,
      has_academic_prefix |-> has_academic_prefix(data.title),
      normalized_title |-> normalize(data.title),
      normalized_journal |-> IF data.journal = <<>> THEN <<>>
                             ELSE << normalize(data.journal[1]) >>,
      normalized_publisher |-> IF data.publisher = <<>> THEN <<>>
                               ELSE << normalize(data.publisher[1]) >> ]

\* Score bonus fields with precomputed subject data
score_bonus_precomputed(subject, candidate, weight) ==
    LET publisher ==
            IF subject.normalized_publisher # <<>> /\ candidate.publisher # <<>>
               /\ subject.normalized_publisher[1] # <<>>
               /\ candidate.publisher[1] # <<>>
               /\ token_sort_ratio_f64_prenormalized(
                      subject.normalized_publisher[1],
                      normalize(candidate.publisher[1])) > Pt(85)
            THEN Pt(10) ELSE 0
    IN  (DoiAward(subject.data, candidate)
         + JournalAward(subject.normalized_journal, subject.data, candidate)
         + PagesAward(subject.data, candidate) + publisher) * weight

\* The MatchResult of a gated pair: every score is 0.
GatedResult(candidate) ==
    [ candidate_index |-> candidate.index, total_score |-> 0, title_score |-> 0,
      author_score |-> 0, date_score |-> 0, bonus_score |-> 0 ]

MatchResultOf(candidate, title_score, author_score, date_score, bonus_score) ==
    [ candidate_index |-> candidate.index,
      total_score |-> title_score + author_score + date_score + bonus_score,
      title_score |-> title_score, author_score |-> author_score,
      date_score |-> date_score, bonus_score |-> bonus_score ]

\* A scorer without the academic prefix gate.
score_candidate_ungated(subject, candidate, weights) ==
    MatchResultOf(candidate,
        score_title(subject.title, candidate.title, weights.title),
        score_author(subject.author, candidate.author, weights.author),
        score_date(subject.year, candidate.year, weights.date),
        score_bonus(subject, candidate, weights.bonus))

\* Score a single candidate against a subject with configurable weights
score_candidate(subject, candidate, weights) ==
    IF has_academic_prefix(subject.title) # has_academic_prefix(candidate.title)
    THEN GatedResult(candidate)
    ELSE MatchResultOf(candidate,
             score_title(subject.title, candidate.title, weights.title),
             score_author(subject.author, candidate.author, weights.author),
             score_date(subject.year, candidate.year, weights.date),
             score_bonus(subject, candidate, weights.bonus))

\* Score a single candidate against precomputed subject data (optimized)
score_candidate_precomputed(subject, candidate, weights) ==
    IF subject.has_academic_prefix # has_academic_prefix(candidate.title)
    THEN GatedResult(candidate)
    ELSE MatchResultOf(candidate,
             score_title_prenorm(subject.normalized_title, candidate.title,
                                 weights.title),
             score_author(subject.data.author, candidate.author, weights.author),
             score_date(subject.data.year, candidate.year, weights.date),
             score_bonus_precomputed(subject, candidate, weights.bonus))

\* ------------------------------------------------------------------------
\* Blocking index
\* ------------------------------------------------------------------------

\* An empty HashMap.
EmptyMap == [k \in {} |-> <<>>]

\* HashMap::insert: the value of an existing key is replaced.
MapInsert(m, k, v) == [x \in DOMAIN m \cup {k} |-> IF x = k THEN v ELSE m[x]]

\* map.entry(k).or_default().push(v)
MapPush(m, k, v) ==
    [x \in DOMAIN m \cup {k} |->
        IF x = k THEN (IF k \in DOMAIN m THEN Append(m[k], v) ELSE <<v>>)
        ELSE m[x]]

\* The elements of a sequence, as a set.
Range(s) == { s[i] : i \in 1..Len(s) }

\* All orders in which the elements of a finite set can be iterated.
Orders(S) ==
    { f \in [1..Cardinality(S) -> S] : \A i, j \in 1..Cardinality(S) :
          f[i] = f[j] => i = j }

\* Calculate decade from year (an Option<i32>)
get_decade(year) ==
    IF year = <<>> THEN <<>> ELSE << RustDiv(year[1], 10) * 10 >>

\* Pushes idx under every key of a set (the order of the keys does not
\* matter: each key has its own list).
RECURSIVE PushAll(_, _, _)
PushAll(m, keys, idx) ==
    IF keys = {} THEN m
    ELSE LET k == CHOOSE x \in keys : TRUE
         IN  PushAll(MapPush(m, k, idx), keys \ {k}, idx)

\* The author surname loop of build_index_rust.
RECURSIVE PushSurnames(_, _, _)
PushSurnames(m, surnames, idx) ==
    IF surnames = <<>> THEN m
    ELSE LET normalized == trim(to_lowercase(Head(surnames)))
         IN  PushSurnames(IF normalized # <<>> THEN MapPush(m, normalized, idx)
                          ELSE m,
                          Tail(surnames), idx)

\* One iteration of build_index_rust's pass: the maps after item is indexed.
IndexItem(ix, item) ==
    LET idx == item.index
    IN  [ doi_to_index |->
              IF item.doi # <<>> THEN MapInsert(ix.doi_to_index, item.doi[1], idx)
              ELSE ix.doi_to_index,
          trigram_to_indices |->
              PushAll(ix.trigram_to_indices, extract_trigrams(item.title), idx),
          surname_to_indices |->
              PushSurnames(ix.surname_to_indices, item.author_surnames, idx),
          decade_to_indices |->
              MapPush(ix.decade_to_indices, get_decade(item.year), idx),
          journal_to_indices |->
              IF item.journal # <<>> /\ trim(to_lowercase(item.journal[1])) # <<>>
              THEN MapPush(ix.journal_to_indices,
                           trim(to_lowercase(item.journal[1])), idx)
              ELSE ix.journal_to_indices ]

EmptyIndex ==
    [ doi_to_index |-> EmptyMap, trigram_to_indices |-> EmptyMap,
      surname_to_indices |-> EmptyMap, decade_to_indices |-> EmptyMap,
      journal_to_indices |-> EmptyMap ]

\* Build index for fuzzy matching: a single pass over all items.
RECURSIVE BuildFrom(_, _)
BuildFrom(ix, items) ==
    IF items = <<>> THEN ix
    ELSE BuildFrom(IndexItem(ix, Head(items)), Tail(items))

build_index_rust(items_data) == BuildFrom(EmptyIndex, items_data)

\* The BlockingIndexData a caller hands to score_batch_indexed, made of the
\* maps of the IndexData that build_index_rust returned (doi_to_index as
\* doi_index, and so on).  decade_index is keyed by i32: it takes the
\* buckets of the decades, and cannot take the None bucket of the records
\* without a year.
BlockingIndexData(ix) ==
    [ doi_index |-> ix.doi_to_index,
      trigram_index |-> ix.trigram_to_indices,
      surname_index |-> ix.surname_to_indices,
      decade_index |->
          [decade \in { key[1] : key \in DOMAIN ix.decade_to_indices \ { <<>> } }
              |-> ix.decade_to_indices[<< decade >>]] ]

\* The union of the lists a map holds under the given keys.
Lookup(m, keys) ==
    UNION { Range(m[k]) : k \in keys \cap DOMAIN m }

\* A narrower decade window: four decades on either side.
DecadeKeysWithin4(year) ==
    IF year = <<>> THEN {}
    ELSE { RustDiv(year[1], 10) * 10 + offset * 10 : offset \in (-4)..4 }

\* The decade keys the filter looks up: the subject's decade and the five
\* decades on either side of it.
DecadeKeys(year) ==
    IF year = <<>> THEN {}
    ELSE LET subject_decade == RustDiv(year[1], 10) * 10
         IN  { subject_decade + offset * 10 : offset \in (-5)..5 }

\* The indexed surnames that occur in the subject's lowercased author string.
SurnameKeys(author, surname_index) ==
    { surname \in DOMAIN surname_index : contains(to_lowercase(author), surname) }

\* The HashSet get_candidate_indices collects when the DOI lookup misses.
IndexUnion(subject, ix) ==
    Lookup(ix.trigram_index, extract_trigrams(subject.title))
    \cup Lookup(ix.surname_index, SurnameKeys(subject.author, ix.surname_index))
    \cup Lookup(ix.decade_index, DecadeKeys(subject.year))

\* Whether get_candidate_indices returns from its DOI lookup.
DoiHit(subject, ix) ==
    /\ subject.doi # <<>>
    /\ subject.doi[1] # <<>>
    /\ subject.doi[1] \in DOMAIN ix.doi_index

\* A filter without the fallback: an empty union is returned as it is.
get_candidate_indices_no_fallback(subject, ix, num_candidates) ==
    IF DoiHit(subject, ix) THEN { << ix.doi_index[subject.doi[1]] >> }
    ELSE Orders(IndexUnion(subject, ix))

\* Get candidate indices for a subject using the blocking index.  The
\* result is the set of vectors the call can return: the union is a HashSet,
\* iterated in an order the program does not fix.
get_candidate_indices(subject, ix, num_candidates) ==
    IF DoiHit(subject, ix) THEN { << ix.doi_index[subject.doi[1]] >> }
    ELSE IF IndexUnion(subject, ix) = {}
         THEN { [k \in 1..num_candidates |-> k - 1] }
         ELSE Orders(IndexUnion(subject, ix))

\* ------------------------------------------------------------------------
\* Top-N selection
\* ------------------------------------------------------------------------

\* Ord for MatchResult: results compare by total score alone.
LessEq(a, b) == a.total_score <= b.total_score

\* BinaryHeap::sift_up: the hole element rises from pos while it is greater
\* than its parent (positions are 0-based, data[pos + 1] here).
RECURSIVE sift_up(_, _, _, _)
sift_up(data, start, pos, hole) ==
    IF pos > start
    THEN LET parent == (pos - 1) \div 2
         IN  IF LessEq(hole, data[parent + 1])
             THEN [data EXCEPT ![pos + 1] = hole]
             ELSE sift_up([data EXCEPT ![pos + 1] = data[parent + 1]],
                          start, parent, hole)
    ELSE [data EXCEPT ![pos + 1] = hole]

\* BinaryHeap::push
heap_push(data, item) == sift_up(Append(data, item), 0, Len(data), item)

\* BinaryHeap::sift_down_to_bottom: the hole sinks to a leaf along the
\* greater children (the right one on a tie), then rises again.
RECURSIVE sift_down_to_bottom(_, _, _, _)
sift_down_to_bottom(data, start, pos, hole) ==
    LET end == Len(data)
        child == 2 * pos + 1
    IN  IF child <= Max(end - 2, 0)
        THEN LET c == IF LessEq(data[child + 1], data[child + 2])
                      THEN child + 1 ELSE child
             IN  sift_down_to_bottom([data EXCEPT ![pos + 1] = data[c + 1]],
                                     start, c, hole)
        ELSE IF child = end - 1
             THEN sift_up([data EXCEPT ![pos + 1] = data[child + 1]],
                          start, child, hole)
             ELSE sift_up(data, start, pos, hole)

\* BinaryHeap::pop on a non-empty heap: the greatest item and the heap left.
heap_pop(data) ==
    LET last == data[Len(data)]
        rest == SubSeq(data, 1, Len(data) - 1)
    IN  IF rest = <<>> THEN [item |-> last, heap |-> <<>>]
        ELSE [item |-> rest[1],
              heap |-> sift_down_to_bottom([rest EXCEPT ![1] = last], 0, 0, last)]

\* An extraction that pops until the heap is empty, whatever top_n is.
RECURSIVE ExtractAll(_, _, _)
ExtractAll(heap, top_n, results) ==
    IF heap = <<>> THEN results
    ELSE ExtractAll(heap_pop(heap).heap, top_n,
                    Append(results, heap_pop(heap).item))

\* The "extract top N" loop: pops until top_n results are out or the heap
\* is empty.
RECURSIVE ExtractTop(_, _, _)
ExtractTop(heap, top_n, results) ==
    IF top_n = 0 \/ heap = <<>> THEN results
    ELSE LET p == heap_pop(heap)
         IN  ExtractTop(p.heap, top_n - 1, Append(results, p.item))

\* A push that does not look at min_score.
PushAlways(heap, result, min) == heap_push(heap, result)

\* The scoring loop of find_top_matches: every candidate is scored and the
\* results at or above min_score are pushed.
PushIfAtLeast(heap, result, min) ==
    IF result.total_score >= min THEN heap_push(heap, result) ELSE heap

RECURSIVE ScoreAll(_, _, _, _, _)
ScoreAll(heap, subject, cands, min, w) ==
    IF cands = <<>> THEN heap
    ELSE ScoreAll(PushIfAtLeast(heap, score_candidate(subject, Head(cands), w),
                                min),
                  subject, Tail(cands), min, w)

\* The positions (1-based) of the candidates that carry the given DOI.
DoiPositions(doi, cands) ==
    { k \in 1..Len(cands) : cands[k].doi # <<>> /\ cands[k].doi[1] = doi }

SetMin(S) == CHOOSE x \in S : \A y \in S : x <= y

SetMax(S) == CHOOSE x \in S : \A y \in S : x >= y

\* Find top N matches for a single subject
find_top_matches(subject, cands, top_n, min_score, weights) ==
    IF subject.doi # <<>> /\ subject.doi[1] # <<>>
       /\ DoiPositions(subject.doi[1], cands) # {}
    THEN << score_candidate(subject,
                            cands[SetMin(DoiPositions(subject.doi[1], cands))],
                            weights) >>
    ELSE ExtractTop(ScoreAll(<<>>, subject, cands, min_score, weights),
                    top_n, <<>>)

\* The DOI map score_batch_indexed builds before dispatch: every non-empty
\* candidate DOI to the candidate's index field; collecting into the HashMap
\* keeps the last entry of a repeated DOI.
BuildDoiMap(cands) ==
    LET dois == { cands[k].doi[1] :
                    k \in { j \in 1..Len(cands) :
                              cands[j].doi # <<>> /\ cands[j].doi[1] # <<>> } }
    IN  [d \in dois |-> cands[SetMax(DoiPositions(d, cands))].index]

\* The scoring loop of find_top_matches_indexed: an index past the end of
\* the candidates is skipped.
RECURSIVE ScoreIndexed(_, _, _, _, _, _)
ScoreIndexed(heap, subject, cands, candidate_indices, min, w) ==
    IF candidate_indices = <<>> THEN heap
    ELSE ScoreIndexed(
             IF Head(candidate_indices) < Len(cands)
             THEN PushIfAtLeast(heap,
                      score_candidate_precomputed(
                          subject, cands[Head(candidate_indices) + 1], w),
                      min)
             ELSE heap,
             subject, cands, Tail(candidate_indices), min, w)

\* Find top matches using precomputed subject and filtered candidate
\* indices.  panic: indexing candidates[cand_idx] out of bounds.
find_top_matches_indexed(subject, cands, candidate_indices, doi_map, top_n, min_score, weights) ==
    IF subject.data.doi # <<>> /\ subject.data.doi[1] # <<>>
       /\ subject.data.doi[1] \in DOMAIN doi_map
    THEN LET cand_idx == doi_map[subject.data.doi[1]]
         IN  IF cand_idx < Len(cands)
             THEN [ panic |-> FALSE,
                    matches |-> << score_candidate_precomputed(
                                       subject, cands[cand_idx + 1], weights) >>,
                    searched |-> 1 ]
             ELSE [ panic |-> TRUE, matches |-> <<>>, searched |-> 0 ]
    ELSE [ panic |-> FALSE,
           matches |-> ExtractTop(ScoreIndexed(<<>>, subject, cands,
                                               candidate_indices, min_score,
                                               weights),
                                  top_n, <<>>),
           searched |-> Len(candidate_indices) ]

\* ------------------------------------------------------------------------
\* Inputs
\* ------------------------------------------------------------------------

\* Bounds of the model.
MaxSubjects == 2

MaxCands == 2

MaxTopN == 2

\* The years of a direct score_date call run from -MaxYear to MaxYear.
MaxYear == 25

\* A bibliographic record as the caller holds it: the fields of BibItemData
\* (scoring) and of ItemData (indexing: item_index is index, journal_name is
\* journal), before the caller assigns its index.
\* "Kant on Mind" by E. M. Adams, 1995, DOI 10.1/X, with all bonus fields
K1 ==
    [ title |-> << "K", "a", "n", "t", " ", "o", "n", " ", "M", "i", "n", "d" >>,
      author |-> << "E", ".", " ", "M", ".", " ", "A", "d", "a", "m", "s" >>,
      author_surnames |-> << << "A", "d", "a", "m", "s" >> >>,
      year |-> << 1995 >>,
      doi |-> << << "1", "0", ".", "1", "/", "X" >> >>,
      journal |-> << << "M", "i", "n", "d" >> >>,
      volume |-> << << "1" >> >>,
      number |-> << << "2" >> >>,
      pages |-> << << "1", "-", "9" >> >>,
      publisher |-> << << "O", "U", "P" >> >> ]

\* "Reply to Hume" by Ernest M. Adams, 1996, the same DOI 10.1/X
K2 ==
    [ title |-> << "R", "e", "p", "l", "y", " ", "t", "o", " ", "H", "u", "m", "e" >>,
      author |-> << "E", "r", "n", "e", "s", "t", " ", "M", ".", " ", "A", "d", "a", "m", "s" >>,
      author_surnames |-> << << "A", "d", "a", "m", "s" >> >>,
      year |-> << 1996 >>,
      doi |-> << << "1", "0", ".", "1", "/", "X" >> >>,
      journal |-> <<>>,
      volume |-> <<>>,
      number |-> <<>>,
      pages |-> <<>>,
      publisher |-> <<>> ]

\* "ab", no author, 1945, no DOI: reachable by its decade alone
K3 ==
    [ title |-> << "a", "b" >>,
      author |-> <<>>,
      author_surnames |-> <<>>,
      year |-> << 1945 >>,
      doi |-> <<>>,
      journal |-> <<>>,
      volume |-> <<>>,
      number |-> <<>>,
      pages |-> <<>>,
      publisher |-> <<>> ]

\* "Kant on Mind" by E. M. Adams again, no year, an empty DOI
K4 ==
    [ title |-> << "K", "a", "n", "t", " ", "o", "n", " ", "M", "i", "n", "d" >>,
      author |-> << "E", ".", " ", "M", ".", " ", "A", "d", "a", "m", "s" >>,
      author_surnames |-> << << "A", "d", "a", "m", "s" >> >>,
      year |-> <<>>,
      doi |-> << <<>> >>,
      journal |-> << << "M", "i", "n", "d" >> >>,
      volume |-> << << "1" >> >>,
      number |-> << << "2" >> >>,
      pages |-> << << "1", "-", "9" >> >>,
      publisher |-> << << "O", "U", "P" >> >> ]

\* A subject with DOI 10.1/X, 1995
S1 ==
    [ title |-> << "K", "a", "n", "t", " ", "o", "n", " ", "M", "i", "n", "d" >>,
      author |-> << "E", "r", "n", "e", "s", "t", " ", "M", ".", " ", "A", "d", "a", "m", "s" >>,
      author_surnames |-> << << "A", "d", "a", "m", "s" >> >>,
      year |-> << 1995 >>,
      doi |-> << << "1", "0", ".", "1", "/", "X" >> >>,
      journal |-> << << "M", "i", "n", "d" >> >>,
      volume |-> << << "1" >> >>,
      number |-> << << "2" >> >>,
      pages |-> << << "1", "-", "9" >> >>,
      publisher |-> << << "O", "U", "P" >> >> ]

\* A subject without DOI and year
S2 ==
    [ title |-> << "K", "a", "n", "t", " ", " ", "o", "n", " ", "m", "i", "n", "d" >>,
      author |-> << "E", ".", " ", "M", ".", " ", "A", "d", "a", "m", "s" >>,
      author_surnames |-> << << "A", "d", "a", "m", "s" >> >>,
      year |-> <<>>,
      doi |-> <<>>,
      journal |-> <<>>,
      volume |-> <<>>,
      number |-> <<>>,
      pages |-> <<>>,
      publisher |-> <<>> ]

\* A subject with no signal: a short title, no author, no year, no DOI
S3 ==
    [ title |-> << "a", "b" >>,
      author |-> <<>>,
      author_surnames |-> <<>>,
      year |-> <<>>,
      doi |-> <<>>,
      journal |-> <<>>,
      volume |-> <<>>,
      number |-> <<>>,
      pages |-> <<>>,
      publisher |-> <<>> ]

\* K1 under the title "  REVIEW OF Kant on Mind"
P1 ==
    [ K1 EXCEPT !.title = << " ", " ", "R", "E", "V", "I", "E", "W", " ", "O", "F",
                            " ", "K", "a", "n", "t", " ", "o", "n", " ", "M", "i",
                            "n", "d" >> ]

\* K2 under the title "A Reply to Hume"
P2 ==
    [ K2 EXCEPT !.title = << "A", " ", "R", "e", "p", "l", "y", " ", "t", "o", " ",
                            "H", "u", "m", "e" >> ]

\* K1 with an empty title, and journal and publisher present but empty
E1 ==
    [ K1 EXCEPT !.title = <<>>, !.journal = << <<>> >>, !.publisher = << <<>> >> ]

\* K1 with title, journal and publisher of white space only
E2 ==
    [ K1 EXCEPT !.title = << " ", " " >>, !.journal = << << " " >> >>,
                !.publisher = << << " " >> >> ]

\* K1 with journal " mind" and publisher "oup  " in another spelling
E3 ==
    [ K1 EXCEPT !.journal = << << " ", "m", "i", "n", "d" >> >>,
                !.publisher = << << "o", "u", "p", " ", " " >> >> ]

CandPool == { K1, K2, K3, K4 }

\* The records a direct scorer call is tried on.
ScorePool == { K1, K2, K3, K4, S1, S2, S3, P1, P2, E1, E2, E3 }

SubjPool == { S1, S2, S3 }

BatchCandPool == { K1, K3 }

\* How the caller numbers the records of a list: by position from 0, or
\* from 1.
IdSchemes == { "position", "from_one" }

IdOf(scheme, k) == IF scheme = "position" THEN k - 1 ELSE k

WithIndex(r, idx) ==
    [ index |-> idx, title |-> r.title, author |-> r.author,
      author_surnames |-> r.author_surnames, year |-> r.year, doi |-> r.doi,
      journal |-> r.journal, volume |-> r.volume, number |-> r.number,
      pages |-> r.pages, publisher |-> r.publisher ]

\* The lists of distinct records of a pool with lo..hi entries.
Lists(pool, lo, hi) ==
    UNION { { f \in [1..n -> pool] : \A i, j \in 1..n : f[i] = f[j] => i = j } :
            n \in lo..hi }

Numbered(list, scheme) ==
    [k \in 1..Len(list) |-> WithIndex(list[k], IdOf(scheme, k))]

UnitWeights == [title |-> 1, author |-> 1, date |-> 1, bonus |-> 1]

WeightSet == { UnitWeights, [title |-> 2, author |-> 1, date |-> 0, bonus |-> 1] }

MinScores == { 0, Pt(150) }

\* ------------------------------------------------------------------------
\* Batch orchestration
\* ------------------------------------------------------------------------

VARIABLES
    subjects,     \* the subjects of the batch calls (Vec<BibItemData>)
    candidates,   \* the candidate corpus (Vec<BibItemData>)
    top_n,        \* the calls' top_n
    min_score,    \* the calls' min_score
    weights,      \* the calls' weights
    index,        \* the blocking index build_index_rust returned
    doi_map,      \* the DOI map of the running score_batch_indexed call
    phase,        \* where the caller is
    pending,      \* the subjects (1-based) whose parallel task has not ended
    reordered,    \* the calls in which a task ended before an earlier one
    bruteOut,     \* the output vector of score_batch, one slot per subject
    indexedOut,   \* the output vector of score_batch_indexed
    filtered,     \* per subject, the vector get_candidate_indices returned
    panicked,     \* the score_batch_indexed call panicked
    previousOut,  \* the output of an earlier score_batch_indexed call, if any
    scoreIn,      \* the (subject, candidate, weights) of a direct scorer call
    scoreOut      \* what the two scorers returned for scoreIn

vars == << subjects, candidates, top_n, min_score, weights, index, doi_map,
           phase, pending, reordered, bruteOut, indexedOut, filtered, panicked,
           previousOut, scoreIn, scoreOut >>

inputs == << subjects, candidates, top_n, min_score, weights, scoreIn, scoreOut >>

\* The calls with a task that ended before an earlier subject's, after the
\* task of subject i of the named call ends.
Overtaken(calls, call, i, unfinished) ==
    IF \E j \in unfinished : j < i THEN calls \cup {call} ELSE calls

\* The slots of an output vector before any task has written its own.
EmptySlots(n) == [k \in 1..n |-> <<>>]

\* A collect that takes the results as the tasks end: the result goes to
\* the first slot not yet written.
CollectInCompletionOrder(out, i, r) ==
    [out EXCEPT ![SetMin({ k \in 1..Len(out) : out[k] = <<>> })] = << r >>]

\* The indexed collect of the parallel iterator: the result of the task of
\* subject i (1-based) goes to slot i of the output vector.
Collect(out, i, r) == [out EXCEPT ![i] = << r >>]

\* The SubjectMatchResult a score_batch task builds for the subject at
\* position idx (0-based).
BruteTaskResult(idx, subject, cands, n, min, w) ==
    [ subject_index |-> idx,
      matches |-> find_top_matches(subject, cands, n, min, w),
      candidates_searched |-> Len(cands) ]

\* The SubjectMatchResult a score_batch_indexed task builds from what
\* find_top_matches_indexed returned.
IndexedTaskResult(idx, found) ==
    [ subject_index |-> idx,
      matches |-> found.matches,
      candidates_searched |-> found.searched ]

\* What find_top_matches_indexed returns to the task of a subject, given
\* the vector the candidate filter returned.
IndexedFound(subject, cands, candidate_indices, dmap, n, min, w) ==
    find_top_matches_indexed(PrecomputedSubject(subject), cands,
                             candidate_indices, dmap, n, min, w)

\* The state before the caller's first call, the inputs of the calls being
\* drawn from the given lists and weights.
InitWith(subjectLists, candidateLists, weightSet) ==
    /\ \E scheme \in IdSchemes :
          /\ \E list \in subjectLists : subjects = Numbered(list, scheme)
          /\ \E list \in candidateLists : candidates = Numbered(list, scheme)
    /\ top_n \in 0..MaxTopN
    /\ min_score \in MinScores
    /\ weights \in weightSet
    /\ index = EmptyIndex
    /\ doi_map = EmptyMap
    /\ phase = "start"
    /\ pending = {}
    /\ reordered = {}
    /\ bruteOut = <<>>
    /\ indexedOut = <<>>
    /\ filtered = <<>>
    /\ panicked = FALSE
    /\ previousOut = <<>>
    /\ scoreIn = <<>>
    /\ scoreOut = <<>>

\* Batches of one subject against every list of candidates.
Init == InitWith(Lists(SubjPool, 1, 1), Lists(CandPool, 0, MaxCands), WeightSet)

\* Batches of several subjects, whose tasks end in any order.
InitBatch ==
    InitWith(Lists(SubjPool, 1, MaxSubjects), Lists(BatchCandPool, 0, MaxCands),
             { UnitWeights })

\* build_index_rust over the candidate corpus.
BuildIndex ==
    /\ phase = "start"
    /\ index' = build_index_rust(candidates)
    /\ phase' = "built"
    /\ UNCHANGED << inputs, previousOut, doi_map, pending, reordered, bruteOut, indexedOut,
                    filtered, panicked >>

\* score_batch is called: one parallel task per subject.
ScoreBatchCall ==
    /\ phase = "built"
    /\ phase' = "brute"
    /\ pending' = 1..Len(subjects)
    /\ bruteOut' = EmptySlots(Len(subjects))
    /\ UNCHANGED << inputs, previousOut, index, doi_map, reordered, indexedOut, filtered,
                    panicked >>

\* The task of subject i of score_batch runs to its end.
BruteTask(i) ==
    /\ phase = "brute"
    /\ i \in pending
    /\ bruteOut' = Collect(bruteOut, i,
                       BruteTaskResult(i - 1, subjects[i], candidates,
                                       top_n, min_score, weights))
    /\ pending' = pending \ {i}
    /\ reordered' = Overtaken(reordered, "brute", i, pending)
    /\ UNCHANGED << inputs, previousOut, index, doi_map, phase, indexedOut, filtered,
                    panicked >>

\* score_batch returns its output vector.
ScoreBatchReturn ==
    /\ phase = "brute"
    /\ pending = {}
    /\ phase' = "bruteDone"
    /\ UNCHANGED << inputs, previousOut, index, doi_map, pending, reordered, bruteOut,
                    indexedOut, filtered, panicked >>

\* score_batch_indexed is called: the DOI map is built, then one parallel
\* task per subject.
ScoreBatchIndexedCall ==
    /\ phase = "bruteDone"
    /\ phase' = "indexed"
    /\ doi_map' = BuildDoiMap(candidates)
    /\ pending' = 1..Len(subjects)
    /\ indexedOut' = EmptySlots(Len(subjects))
    /\ filtered' = EmptySlots(Len(subjects))
    /\ UNCHANGED << inputs, previousOut, index, reordered, bruteOut, panicked >>

\* How the task of subject i ends, given the vector the candidate filter
\* returned and what find_top_matches_indexed did with it.
IndexedTaskEnd(i, ci, found) ==
    /\ filtered' = [filtered EXCEPT ![i] = << ci >>]
    /\ IF found.panic
       THEN /\ panicked' = TRUE
            /\ phase' = "done"
            /\ pending' = {}
            /\ indexedOut' = <<>>
            /\ UNCHANGED reordered
       ELSE /\ indexedOut' = Collect(indexedOut, i,
                                 IndexedTaskResult(i - 1, found))
            /\ pending' = pending \ {i}
            /\ reordered' = Overtaken(reordered, "indexed", i, pending)
            /\ UNCHANGED << phase, panicked >>

\* The task of subject i of score_batch_indexed runs to its end: it
\* returns its SubjectMatchResult, or panics and the call with it.
IndexedTask(i) ==
    /\ phase = "indexed"
    /\ i \in pending
    /\ \E ci \in get_candidate_indices(subjects[i], BlockingIndexData(index),
                                          Len(candidates)) :
          IndexedTaskEnd(i, ci, IndexedFound(subjects[i], candidates, ci, doi_map,
                                             top_n, min_score, weights))
    /\ UNCHANGED << inputs, previousOut, index, doi_map, bruteOut >>

\* score_batch_indexed returns its output vector.
ScoreBatchIndexedReturn ==
    /\ phase = "indexed"
    /\ pending = {}
    /\ phase' = "done"
    /\ UNCHANGED << inputs, previousOut, index, doi_map, pending, reordered, bruteOut,
                    indexedOut, filtered, panicked >>

Next ==
    \/ BuildIndex
    \/ ScoreBatchCall
    \/ \E i \in 1..MaxSubjects : BruteTask(i)
    \/ ScoreBatchReturn
    \/ ScoreBatchIndexedCall
    \/ \E i \in 1..MaxSubjects : IndexedTask(i)
    \/ ScoreBatchIndexedReturn

Spec == Init /\ [][Next]_vars

SpecBatch == InitBatch /\ [][Next]_vars

\* Single-subject batches under unit weights, for a caller that runs the
\* indexed batch twice.
InitRerun ==
    InitWith(Lists(SubjPool, 1, 1), Lists(CandPool, 0, MaxCands), { UnitWeights })

\* The caller keeps the output of the returned score_batch_indexed call,
\* builds the index again from the same corpus and calls score_batch_indexed
\* again with the same arguments.
RebuildAndRerun ==
    /\ phase = "done"
    /\ ~panicked
    /\ previousOut = <<>>
    /\ previousOut' = << indexedOut >>
    /\ index' = build_index_rust(candidates)
    /\ doi_map' = BuildDoiMap(candidates)
    /\ phase' = "indexed"
    /\ pending' = 1..Len(subjects)
    /\ indexedOut' = EmptySlots(Len(subjects))
    /\ filtered' = EmptySlots(Len(subjects))
    /\ UNCHANGED << inputs, reordered, bruteOut, panicked >>

NextRerun ==
    \/ Next
    \/ RebuildAndRerun

SpecRerun == InitRerun /\ [][NextRerun]_vars

\* The state before a direct call of the two scorers on one pair.
InitScore ==
    /\ \E s \in ScorePool, c \in ScorePool, w \in WeightSet :
          scoreIn = [ subject |-> WithIndex(s, 0), candidate |-> WithIndex(c, 0),
                      weights |-> w ]
    /\ scoreOut = <<>>
    /\ subjects = <<>>
    /\ candidates = <<>>
    /\ top_n = 0
    /\ min_score = 0
    /\ weights = UnitWeights
    /\ index = EmptyIndex
    /\ doi_map = EmptyMap
    /\ phase = "start"
    /\ pending = {}
    /\ reordered = {}
    /\ bruteOut = <<>>
    /\ indexedOut = <<>>
    /\ filtered = <<>>
    /\ panicked = FALSE
    /\ previousOut = <<>>

\* score_candidate on the pair, and score_candidate_precomputed on the pair
\* after PrecomputedSubject::new on its subject.
ScorePair ==
    /\ scoreOut = <<>>
    /\ scoreOut' =
          << [ plain |-> score_candidate(scoreIn.subject, scoreIn.candidate,
                                        scoreIn.weights),
               precomputed |->
                   score_candidate_precomputed(
                       PrecomputedSubject(scoreIn.subject), scoreIn.candidate,
                       scoreIn.weights) ] >>
    /\ UNCHANGED << subjects, candidates, top_n, min_score, weights, scoreIn,
                    index, doi_map, phase, pending, reordered, bruteOut,
                    indexedOut, filtered, panicked, previousOut >>

NextScore == ScorePair

SpecScore == InitScore /\ [][NextScore]_vars

\* No batch call is under way and none has been made.
NoBatch ==
    /\ subjects = <<>>
    /\ candidates = <<>>
    /\ top_n = 0
    /\ min_score = 0
    /\ weights = UnitWeights
    /\ index = EmptyIndex
    /\ doi_map = EmptyMap
    /\ phase = "start"
    /\ pending = {}
    /\ reordered = {}
    /\ bruteOut = <<>>
    /\ indexedOut = <<>>
    /\ filtered = <<>>
    /\ panicked = FALSE
    /\ previousOut = <<>>

\* The variables of the batch calls.
batchVars ==
    << subjects, candidates, top_n, min_score, weights, index, doi_map, phase,
       pending, reordered, bruteOut, indexedOut, filtered, panicked,
       previousOut >>

\* The years (Option<i32>) a direct score_date call is tried on.
YearPool == { <<>> } \cup { << y >> : y \in (-MaxYear)..MaxYear }

\* The state before a direct call of score_date with weight 1.
InitDate ==
    /\ \E year1 \in YearPool, year2 \in YearPool :
          scoreIn = [ year1 |-> year1, year2 |-> year2, weight |-> 1 ]
    /\ scoreOut = <<>>
    /\ NoBatch

\* score_date on the two years.
ScoreDate ==
    /\ scoreOut = <<>>
    /\ scoreOut' = << score_date(scoreIn.year1, scoreIn.year2, scoreIn.weight) >>
    /\ UNCHANGED << batchVars, scoreIn >>

NextDate == ScoreDate

SpecDate == InitDate /\ [][NextDate]_vars

\* The author strings a direct score_author call is tried on.
AuthorPool ==
    {
      \* "E. M. Adams"
      << "E", ".", " ", "M", ".", " ", "A", "d", "a", "m", "s" >>,
      \* "Ernest M. Adams"
      << "E", "r", "n", "e", "s", "t", " ", "M", ".", " ", "A", "d",
         "a", "m", "s" >>,
      \* "Ernest Adams"
      << "E", "r", "n", "e", "s", "t", " ", "A", "d", "a", "m", "s" >>,
      \* "E. X. Adams"
      << "E", ".", " ", "X", ".", " ", "A", "d", "a", "m", "s" >>,
      \* "e. m. adams"
      << "e", ".", " ", "m", ".", " ", "a", "d", "a", "m", "s" >>,
      \* "J. Smith"
      << "J", ".", " ", "S", "m", "i", "t", "h" >>,
      \* "John Smith"
      << "J", "o", "h", "n", " ", "S", "m", "i", "t", "h" >>,
      \* "É. Gilson"
      << "É", ".", " ", "G", "i", "l", "s", "o", "n" >>,
      \* "Étienne Gilson"
      << "É", "t", "i", "e", "n", "n", "e", " ", "G", "i", "l", "s",
         "o", "n" >>,
      \* "Adams"
      << "A", "d", "a", "m", "s" >>,
      \* ""
      <<>> }

\* The state before a direct call of check_initials_match and score_author
\* on two author strings, with weight 1.
InitAuthor ==
    /\ \E author1 \in AuthorPool, author2 \in AuthorPool :
          scoreIn = [ author1 |-> author1, author2 |-> author2, weight |-> 1 ]
    /\ scoreOut = <<>>
    /\ NoBatch

\* check_initials_match and score_author on the two author strings, and
\* the raw similarity score_author starts from.
ScoreAuthor ==
    /\ scoreOut = <<>>
    /\ scoreOut' =
          << [ check |-> check_initials_match(scoreIn.author1, scoreIn.author2),
               raw |-> token_sort_ratio_f64(scoreIn.author1, scoreIn.author2),
               score |-> score_author(scoreIn.author1, scoreIn.author2,
                                      scoreIn.weight) ] >>
    /\ UNCHANGED << batchVars, scoreIn >>

NextAuthor == ScoreAuthor

SpecAuthor == InitAuthor /\ [][NextAuthor]_vars

\* ------------------------------------------------------------------------
\* Properties
\* ------------------------------------------------------------------------

\* score_batch has returned its output vector.
ReturnedBrute == phase \in { "bruteDone", "indexed", "done" }

\* score_batch_indexed has returned its output vector.
ReturnedIndexed == phase = "done" /\ ~panicked

\* The candidate filter has returned to the task of subject k.
Filtered(k) == k \in 1..Len(filtered) /\ filtered[k] # <<>>

\* The filter's DOI lookup hits for subject k, on the index built over the
\* corpus.
DoiLookupHits(k) == DoiHit(subjects[k], BlockingIndexData(index))

\* The union of the filter's trigram, surname and decade lookups for
\* subject k.
UnionFor(k) == IndexUnion(subjects[k], BlockingIndexData(index))

\* Subject k has a non-empty DOI that a candidate of the corpus carries.
SubjectDoiInCorpus(k) ==
    /\ subjects[k].doi # <<>>
    /\ subjects[k].doi[1] # <<>>
    /\ DoiPositions(subjects[k].doi[1], candidates) # {}

\* C1: once a batch call has returned, its output has one entry per subject
\* and entry k is the SubjectMatchResult computed for subject k (for the
\* indexed call: from the vector the candidate filter returned to the task
\* of subject k), in whatever order the tasks ended.
C1_OutputInSubjectOrder ==
    /\ ReturnedBrute =>
          /\ Len(bruteOut) = Len(subjects)
          /\ \A k \in 1..Len(subjects) :
                bruteOut[k] = << BruteTaskResult(k - 1, subjects[k], candidates,
                                                 top_n, min_score, weights) >>
    /\ ReturnedIndexed =>
          /\ Len(indexedOut) = Len(subjects)
          /\ \A k \in 1..Len(subjects) :
                /\ Filtered(k)
                /\ filtered[k][1] \in
                       get_candidate_indices(subjects[k], BlockingIndexData(index),
                                             Len(candidates))
                /\ indexedOut[k] =
                       << IndexedTaskResult(k - 1,
                              IndexedFound(subjects[k], candidates,
                                           filtered[k][1], doi_map, top_n,
                                           min_score, weights)) >>

\* C1 witness: both calls have returned, in both a task ended before an
\* earlier subject's, and the first two subjects have different matches.
C1_Witness ==
    /\ ReturnedIndexed
    /\ reordered = { "brute", "indexed" }
    /\ Len(subjects) >= 2
    /\ bruteOut[1][1].matches # bruteOut[2][1].matches
    /\ indexedOut[1][1].matches # indexedOut[2][1].matches

\* The result holds one match, the score of a candidate that carries the
\* subject's DOI, and counts one candidate searched.
SoleDoiMatch(r, k) ==
    /\ Len(r.matches) = 1
    /\ r.candidates_searched = 1
    /\ \E p \in DoiPositions(subjects[k].doi[1], candidates) :
          r.matches[1] = score_candidate(subjects[k], candidates[p], weights)

\* C2: in both modes, a subject with a non-empty DOI that a candidate
\* carries gets exactly one match, the scored pair for that candidate, with
\* candidates_searched = 1, whatever top_n, min_score and weights are.
C2_DoiMatchIsSoleResult ==
    \A k \in 1..Len(subjects) :
        SubjectDoiInCorpus(k) =>
            /\ ReturnedBrute => SoleDoiMatch(bruteOut[k][1], k)
            /\ ReturnedIndexed => SoleDoiMatch(indexedOut[k][1], k)

\* C7: every SubjectMatchResult carries the caller-assigned id (the index
\* field) of the subject it was computed for.
C7_ResultCarriesSubjectId ==
    \A k \in 1..Len(subjects) :
        /\ ReturnedBrute => bruteOut[k][1].subject_index = subjects[k].index
        /\ ReturnedIndexed => indexedOut[k][1].subject_index = subjects[k].index

\* The candidate shares a title trigram with the subject.
SharesTrigram(s, c) ==
    extract_trigrams(s.title) \cap extract_trigrams(c.title) # {}

\* A surname the candidate is indexed under occurs in the subject's author
\* text, case ignored.
SurnameInAuthor(s, c) ==
    \E j \in 1..Len(c.author_surnames) :
        /\ trim(to_lowercase(c.author_surnames[j])) # <<>>
        /\ contains(to_lowercase(s.author),
                    trim(to_lowercase(c.author_surnames[j])))

\* Both have a year and the years are at most 50 apart.
YearWithin50(s, c) ==
    /\ s.year # <<>>
    /\ c.year # <<>>
    /\ s.year[1] - c.year[1] \in (-50)..50

\* The candidates (1-based positions) the blocking signals relate to subject k.
Related(k) ==
    { p \in 1..Len(candidates) :
        \/ SharesTrigram(subjects[k], candidates[p])
        \/ SurnameInAuthor(subjects[k], candidates[p])
        \/ YearWithin50(subjects[k], candidates[p]) }

\* The ids of the related candidates are all in the vector the filter
\* returned for subject k.
RelatedAreFiltered(k) ==
    \A p \in Related(k) : candidates[p].index \in Range(filtered[k][1])

\* C3 as stated: for every subject, every candidate that shares a title
\* trigram, or has an indexed surname inside the subject's author text, or
\* has a year within 50 years of the subject's, is in the id set the
\* candidate filter returned.
C3_BlockingKeepsRelated ==
    \A k \in 1..Len(subjects) : Filtered(k) => RelatedAreFiltered(k)

\* C3 amended: the same, for the subjects whose DOI is absent, empty or not
\* a key of the DOI index; on a DOI hit the filter returns the one id the
\* DOI index holds and nothing else.
C3_BlockingKeepsRelatedOnDoiMiss ==
    \A k \in 1..Len(subjects) :
        /\ Filtered(k) /\ ~DoiLookupHits(k) => RelatedAreFiltered(k)
        /\ Filtered(k) /\ DoiLookupHits(k) =>
              filtered[k][1] = << index.doi_to_index[subjects[k].doi[1]] >>

\* C3 witness: the filter missed on the DOI and returned a candidate that
\* only its year, exactly 50 years away, relates to the subject.
C3_Witness ==
    \E k \in 1..Len(subjects) :
        /\ Filtered(k)
        /\ ~DoiLookupHits(k)
        /\ \E p \in Related(k) :
              /\ ~SharesTrigram(subjects[k], candidates[p])
              /\ ~SurnameInAuthor(subjects[k], candidates[p])
              /\ subjects[k].year[1] - candidates[p].year[1] = 50
              /\ candidates[p].index \in Range(filtered[k][1])

\* The ids of the candidate corpus.
CorpusIds == { candidates[p].index : p \in 1..Len(candidates) }

\* C4: for any subject whose filtered candidate set is the whole corpus,
\* score_batch and score_batch_indexed return the same matches: the same
\* candidate ids with the same scores.
C4_ModesReturnSameMatches ==
    ReturnedIndexed =>
        \A k \in 1..Len(subjects) :
            Range(filtered[k][1]) = CorpusIds =>
                Range(indexedOut[k][1].matches) = Range(bruteOut[k][1].matches)

\* The total scores of a matches sequence never increase along it.
NonIncreasing(matches) ==
    \A j \in 1..(Len(matches) - 1) :
        matches[j].total_score >= matches[j + 1].total_score

\* C6 as stated: every returned matches sequence has at most top_n entries
\* and its total scores are in non-increasing order.
C6_AtMostTopNDescending ==
    \A k \in 1..Len(subjects) :
        /\ ReturnedBrute =>
              /\ Len(bruteOut[k][1].matches) <= top_n
              /\ NonIncreasing(bruteOut[k][1].matches)
        /\ ReturnedIndexed =>
              /\ Len(indexedOut[k][1].matches) <= top_n
              /\ NonIncreasing(indexedOut[k][1].matches)

\* The length the amended C6 allows a subject's matches sequence.
LengthAllowed(k, matches) ==
    IF SubjectDoiInCorpus(k) THEN Len(matches) = 1 ELSE Len(matches) <= top_n

\* C6 amended: a subject whose non-empty DOI a candidate carries gets
\* exactly one match whatever top_n is (also when top_n = 0); every other
\* subject gets at most top_n matches; total scores never increase along
\* the sequence.
C6_AtMostTopNUnlessDoi ==
    \A k \in 1..Len(subjects) :
        /\ ReturnedBrute =>
              /\ LengthAllowed(k, bruteOut[k][1].matches)
              /\ NonIncreasing(bruteOut[k][1].matches)
        /\ ReturnedIndexed =>
              /\ LengthAllowed(k, indexedOut[k][1].matches)
              /\ NonIncreasing(indexedOut[k][1].matches)

\* C6 witness: with top_n = 1 and two candidates at or above min_score,
\* both modes returned the one with the greater total and dropped the other.
C6_Witness ==
    /\ ReturnedIndexed
    /\ top_n = 1
    /\ ~SubjectDoiInCorpus(1)
    /\ Len(bruteOut[1][1].matches) = 1
    /\ Len(indexedOut[1][1].matches) = 1
    /\ Len(filtered[1][1]) = 2
    /\ \E p \in 1..Len(candidates) :
          /\ score_candidate(subjects[1], candidates[p], weights).total_score
                 >= min_score
          /\ score_candidate(subjects[1], candidates[p], weights).total_score
                 < bruteOut[1][1].matches[1].total_score
          /\ score_candidate(subjects[1], candidates[p], weights).total_score
                 < indexedOut[1][1].matches[1].total_score

\* The filter handed the task of subject k an index past the corpus.
GivenOutOfRange(k) ==
    /\ Filtered(k)
    /\ \E j \in 1..Len(filtered[k][1]) : filtered[k][1][j] >= Len(candidates)

\* C8: a score_batch_indexed call in which the scoring path was given a
\* candidate index outside [0, numCandidates) does not return a normal
\* result.
C8_OutOfRangeIndexRejected ==
    \A k \in 1..Len(subjects) : GivenOutOfRange(k) => ~ReturnedIndexed

\* The keys of the decade index under which a record id is listed.
DecadeKeysOf(id) ==
    { key \in DOMAIN index.decade_to_indices :
        id \in Range(index.decade_to_indices[key]) }

\* C9: after build_index_rust, a record without a year is under no key of
\* the decade index and a record with year y is under exactly the key
\* floor(y/10)*10.
C9_DecadeIndexOmitsYearless ==
    phase # "start" =>
        \A p \in 1..Len(candidates) :
            DecadeKeysOf(candidates[p].index) =
                IF candidates[p].year = <<>> THEN {}
                ELSE { << (candidates[p].year[1] \div 10) * 10 >> }

\* C10: when the subject's DOI is not in the DOI index and the union of the
\* trigram, surname and decade lookups is empty, the filter returns exactly
\* 0..numCandidates-1; the filter's result is empty only when there are no
\* candidates.
C10_EmptyUnionFallsBack ==
    \A k \in 1..Len(subjects) :
        Filtered(k) =>
            /\ ~DoiLookupHits(k) /\ UnionFor(k) = {}
                  => filtered[k][1] = [j \in 1..Len(candidates) |-> j - 1]
            /\ filtered[k][1] = <<>> => Len(candidates) = 0

\* C10 witness: a subject with no signal against a corpus of two got both
\* positions from the filter.
C10_Witness ==
    \E k \in 1..Len(subjects) :
        /\ Filtered(k)
        /\ ~DoiLookupHits(k)
        /\ UnionFor(k) = {}
        /\ Len(candidates) = 2
        /\ filtered[k][1] = << 0, 1 >>

\* Exactly one of the pair's titles starts with a listed prefix.
OneSidedPrefix ==
    has_academic_prefix(scoreIn.subject.title)
        # has_academic_prefix(scoreIn.candidate.title)

\* The total and the four component scores of a MatchResult are all 0.
AllZero(r) ==
    /\ r.total_score = 0
    /\ r.title_score = 0
    /\ r.author_score = 0
    /\ r.date_score = 0
    /\ r.bonus_score = 0

\* C5: for a pair in which exactly one title (lowercased, trimmed) starts
\* with a listed academic prefix, both scorers return a MatchResult whose
\* total and four component scores are 0, whatever the weights and the
\* other fields.
C5_PrefixGateZeroes ==
    scoreOut # <<>> /\ OneSidedPrefix =>
        /\ AllZero(scoreOut[1].plain)
        /\ AllZero(scoreOut[1].precomputed)

\* C5 witness: the scorers returned for a pair gated by the subject's
\* "  REVIEW OF " title whose author, year, DOI and bonus fields all agree.
C5_Witness ==
    /\ scoreOut # <<>>
    /\ OneSidedPrefix
    /\ has_academic_prefix(scoreIn.subject.title)
    /\ scoreIn.subject.doi = scoreIn.candidate.doi
    /\ scoreIn.subject.doi # <<>>
    /\ scoreIn.subject.author = scoreIn.candidate.author
    /\ scoreIn.subject.year = scoreIn.candidate.year
    /\ scoreIn.subject.year # <<>>
    /\ scoreIn.subject.pages = scoreIn.candidate.pages
    /\ scoreIn.weights = UnitWeights

\* The (candidate id, scores) matches of a result, as a set.
MatchSet(result) == Range(result.matches)

\* C11: when the index is built again from the same corpus and the indexed
\* batch is run again with the same arguments, every subject gets the same
\* set of (candidate id, scores) matches and the same candidates_searched
\* as in the first run.
C11_RerunGivesSameMatches ==
    ReturnedIndexed /\ previousOut # <<>> =>
        \A k \in 1..Len(subjects) :
            /\ MatchSet(indexedOut[k][1]) = MatchSet(previousOut[1][k][1])
            /\ indexedOut[k][1].candidates_searched
                   = previousOut[1][k][1].candidates_searched

\* The results score_batch computes for subject k: one per candidate.
BruteScored(k) ==
    { score_candidate(subjects[k], candidates[p], weights) :
        p \in 1..Len(candidates) }

\* The results score_batch_indexed computes for subject k: one per index
\* the filter returned that is a position of the corpus.
IndexedScored(k) ==
    { score_candidate(subjects[k], candidates[ci + 1], weights) :
        ci \in { x \in Range(filtered[k][1]) : x < Len(candidates) } }

\* matches is a top-N selection of the scored results at or above min_score.
TopNSelection(matches, scored) ==
    /\ Range(matches) \subseteq scored
    /\ Cardinality(Range(matches)) = Len(matches)
    /\ \A m \in Range(matches) : m.total_score >= min_score
    /\ \A r \in scored \ Range(matches) :
          ~(/\ r.total_score >= min_score
            /\ \E m \in Range(matches) : r.total_score > m.total_score)
    /\ Len(matches) < top_n =>
          \A r \in scored : r.total_score >= min_score => r \in Range(matches)

\* C12: when no candidate carries the subject's non-empty DOI, the returned
\* matches are a top-N selection of the scored candidates: every match has
\* total >= min_score, no scored candidate left out has total >= min_score
\* and a strictly higher total than a returned one, and if fewer than top_n
\* are returned then every scored candidate with total >= min_score is
\* returned.
C12_MatchesAreTopNSelection ==
    \A k \in 1..Len(subjects) :
        ~SubjectDoiInCorpus(k) =>
            /\ ReturnedBrute =>
                  TopNSelection(bruteOut[k][1].matches, BruteScored(k))
            /\ ReturnedIndexed =>
                  TopNSelection(indexedOut[k][1].matches, IndexedScored(k))

\* C12 witness: with top_n = 2 both modes scored two candidates, returned
\* the one at or above min_score and left out the one below it.
C12_Witness ==
    /\ ReturnedIndexed
    /\ ~SubjectDoiInCorpus(1)
    /\ top_n = 2
    /\ min_score > 0
    /\ Cardinality(BruteScored(1)) = 2
    /\ Cardinality(IndexedScored(1)) = 2
    /\ Len(bruteOut[1][1].matches) = 1
    /\ Len(indexedOut[1][1].matches) = 1
    /\ \E r \in IndexedScored(1) : r.total_score < min_score

\* The number of scores score_batch computes for subject k: one on the DOI
\* short-circuit, one per candidate otherwise.
BruteScoreCount(k) ==
    IF SubjectDoiInCorpus(k) THEN 1 ELSE Len(candidates)

\* The number of scores score_batch_indexed computes for subject k: one on
\* the DOI short-circuit, otherwise one per filtered index that is not
\* skipped.
IndexedScoreCount(k) ==
    IF SubjectDoiInCorpus(k) THEN 1
    ELSE Cardinality({ j \in 1..Len(filtered[k][1]) :
                         filtered[k][1][j] < Len(candidates) })

\* C13: in either mode, candidates_searched is the number of candidates a
\* score was computed for: skipped indices are not counted and a DOI
\* short-circuit counts 1.
C13_SearchedCountsScored ==
    \A k \in 1..Len(subjects) :
        /\ ReturnedBrute =>
              bruteOut[k][1].candidates_searched = BruteScoreCount(k)
        /\ ReturnedIndexed =>
              indexedOut[k][1].candidates_searched = IndexedScoreCount(k)

\* C14: score_candidate_precomputed on PrecomputedSubject::new(subject)
\* returns the same MatchResult (candidate id, total and four components)
\* as score_candidate on the raw subject, also when the subject's title,
\* journal or publisher is empty, absent or white space only.
C14_PrecomputedEqualsPlain ==
    scoreOut # <<>> => scoreOut[1].precomputed = scoreOut[1].plain

\* C14 witness: both scorers returned a positive total for a subject whose
\* title, journal and publisher are white space only, against a candidate
\* that has all three.
C14_Witness ==
    /\ scoreOut # <<>>
    /\ scoreIn.subject.title # <<>>
    /\ normalize(scoreIn.subject.title) = <<>>
    /\ scoreIn.subject.journal # <<>>
    /\ scoreIn.subject.journal[1] # <<>>
    /\ normalize(scoreIn.subject.journal[1]) = <<>>
    /\ scoreIn.subject.publisher # <<>>
    /\ scoreIn.subject.publisher[1] # <<>>
    /\ normalize(scoreIn.subject.publisher[1]) = <<>>
    /\ normalize(scoreIn.candidate.title) # <<>>
    /\ scoreIn.candidate.journal # <<>>
    /\ scoreIn.candidate.publisher # <<>>
    /\ normalize(scoreIn.candidate.publisher[1]) # <<>>
    /\ scoreOut[1].plain.total_score > 0
    /\ scoreOut[1].precomputed.total_score > 0

\* The distance of two years.
YearDistance(y1, y2) == IF y1 >= y2 THEN y1 - y2 ELSE y2 - y1

\* The date score C15 states for two years, under weight 1: the table up to
\* a distance of 5, beyond it 40 when both years round down to the same
\* multiple of 10 and 0 otherwise.
StatedDateScore(y1, y2) ==
    CASE YearDistance(y1, y2) = 0 -> Pt(100)
      [] YearDistance(y1, y2) = 1 -> Pt(95)
      [] YearDistance(y1, y2) = 2 -> Pt(90)
      [] YearDistance(y1, y2) = 3 -> Pt(85)
      [] YearDistance(y1, y2) = 4 -> Pt(75)
      [] YearDistance(y1, y2) = 5 -> Pt(65)
      [] OTHER -> IF y1 \div 10 = y2 \div 10 THEN Pt(40) ELSE 0

\* C15: for all years, negative ones included, and weight 1, score_date
\* returns 100, 95, 90, 85, 75, 65 for distances 0..5; beyond 5 it returns
\* 40 if floor(y1/10) = floor(y2/10) and 0 otherwise; it returns 0 if
\* either year is missing.
C15_DateScoreTable ==
    scoreOut # <<>> =>
        scoreOut[1] = IF scoreIn.year1 = <<>> \/ scoreIn.year2 = <<>> THEN 0
                      ELSE StatedDateScore(scoreIn.year1[1], scoreIn.year2[1])

\* The surname C16 names: the last white space token of the author string
\* (none in an empty string).
StatedSurname(author) ==
    IF split_whitespace(author) = <<>> THEN <<>>
    ELSE split_whitespace(author)[Len(split_whitespace(author))]

\* The given names: the tokens before the surname.
StatedGiven(author) ==
    IF split_whitespace(author) = <<>> THEN <<>>
    ELSE SubSeq(split_whitespace(author), 1, Len(split_whitespace(author)) - 1)

\* The case-folded first letter of a token (none in an empty token).
FoldedFirstLetter(token) ==
    IF token = <<>> THEN <<>> ELSE << LowerChar(token[1]) >>

\* A bare initial: one letter, with or without a period after it.
BareInitial(token) ==
    /\ Len(token) \in 1..2
    /\ IsAlphabetic(token[1])
    /\ Len(token) = 2 => token[2] = "."

\* The number of bare initials among the given names.
BareInitials(given) ==
    Cardinality({ i \in 1..Len(given) : BareInitial(given[i]) })

\* The number of places, up to the shorter list's length, where the given
\* names' first letters agree.
StatedMatches(given1, given2) ==
    Cardinality({ i \in 1..Min(Len(given1), Len(given2)) :
                    FoldedFirstLetter(given1[i]) = FoldedFirstLetter(given2[i]) })

\* The condition C16 states for check_initials_match.
StatedInitialsMatch(a, b) ==
    /\ FoldedFirstLetter(StatedSurname(a)) = FoldedFirstLetter(StatedSurname(b))
    /\ token_sort_ratio_f64(StatedSurname(a), StatedSurname(b)) >= Pt(80)
    /\ BareInitials(StatedGiven(a)) # BareInitials(StatedGiven(b))
    /\ StatedMatches(StatedGiven(a), StatedGiven(b)) > 0
    /\ StatedMatches(StatedGiven(a), StatedGiven(b))
           >= Min(Len(StatedGiven(a)), Len(StatedGiven(b))) - 1

\* C16: check_initials_match is true exactly when the surnames have the
\* same case-folded first letter and similarity >= 80, the sides have
\* different numbers of bare-initial given names and the positional first
\* letter matches are > 0 and >= shorterLen - 1; score_author adds +50
\* only when the raw similarity is <= 85 and the check is true, and adds
\* nothing but 0, +50 or +100.
C16_InitialsMatchAsStated ==
    scoreOut # <<>> =>
        /\ scoreOut[1].check
               = StatedInitialsMatch(scoreIn.author1, scoreIn.author2)
        /\ scoreOut[1].score - scoreOut[1].raw \in { 0, Pt(50), Pt(100) }
        /\ scoreOut[1].score - scoreOut[1].raw = Pt(50) =>
              /\ scoreOut[1].raw <= Pt(85)
              /\ StatedInitialsMatch(scoreIn.author1, scoreIn.author2)

\* C17: in score_batch_indexed, whatever unique ids the candidates carry, a
\* subject with a non-empty DOI that a candidate carries gets one match,
\* the score of a candidate with that DOI: the call does not index past the
\* end of the candidate list and does not select another record.
C17_DoiLookupSelectsDoiCandidate ==
    \A k \in 1..Len(subjects) :
        phase = "done" /\ SubjectDoiInCorpus(k) =>
            /\ ~panicked
            /\ Len(indexedOut[k][1].matches) = 1
            /\ \E p \in DoiPositions(subjects[k].doi[1], candidates) :
                  indexedOut[k][1].matches[1]
                      = score_candidate(subjects[k], candidates[p], weights)

====
